---- MODULE Spec2Model ----
(***************************************************************************)
(* Campaign CRUD service (src/main.py): one SQLite table `campaign`,       *)
(* five request handlers and the startup lifespan that seeds the table.    *)
(*                                                                         *)
(* Spec      the handlers as the single event loop runs them: every        *)
(*           handler is `async def` without an await, so it runs from its  *)
(*           first line to its commit without another handler in between.  *)
(* SpecConc  the same handlers run by several workers over the one         *)
(*           database file: each request has its own session and the       *)
(*           steps of different requests interleave.                       *)
(***************************************************************************)
EXTENDS Integers, Sequences, FiniteSets, TLC

\* ---------------------------------------------------------------- bounds
MaxId == 3
NumReq == 2

\* ---------------------------------------------------------------- values
\* A datetime is its wall-clock reading and its tzinfo; None is Python's None.
None == [wall |-> 0, tz |-> "none"]
Times == {1, 2}
IdInputs == 1..(MaxId + 1)
NoId == 0 - 1

\* datetime.now(timezone.utc) and datetime.now() at clock reading t
utc_now(t) == [wall |-> t, tz |-> "utc"]
local_now(t) == [wall |-> t, tz |-> "naive"]

\* The DateTime column on SQLite: the value is written as the text of its
\* wall-clock fields (tzinfo is not written), NULL for None, and read back as
\* a datetime without tzinfo.
bind_datetime(dt) == dt.wall
result_datetime(w) == IF w = 0 THEN None ELSE [wall |-> w, tz |-> "naive"]

\* A row of the table as stored, and the Campaign object loaded from it.
Campaign(r) ==
    [campaign_id |-> r.campaign_id, name |-> r.name,
     due_date |-> result_datetime(r.due_date),
     created_at |-> result_datetime(r.created_at)]

\* CampaignCreate: the bodies of create and update requests that are tried, a
\* body without due_date, one with a due_date without timezone and one with a
\* due_date that has a UTC offset.
CampaignCreate ==
    {[name |-> "A", due_date |-> None],
     [name |-> "A", due_date |-> [wall |-> 1, tz |-> "naive"]],
     [name |-> "B", due_date |-> [wall |-> 1, tz |-> "+02:00"]]}

VARIABLES lifecycle, table, seeded, everIssued, deleted, written, req, resp,
          rq, sessions, nextSid

vars == <<lifecycle, table, seeded, everIssued, deleted, written, req, resp,
          rq, sessions, nextSid>>
concVars == <<rq, sessions, nextSid>>

\* ---------------------------------------------------------------- store
Ids(tbl) == {r.campaign_id : r \in tbl}
RowsOf(tbl, id) == {r \in tbl : r.campaign_id = id}

SetMax(S) == CHOOSE m \in S : \A x \in S : x <= m

\* campaign_id is INTEGER PRIMARY KEY without AUTOINCREMENT: an insert that
\* gives no id gets one more than the largest id present, 1 in an empty table.
next_rowid_sameasmax(tbl) == IF tbl = {} THEN 1 ELSE SetMax(Ids(tbl))
next_rowid(tbl) == IF tbl = {} THEN 1 ELSE SetMax(Ids(tbl)) + 1

\* INSERT of Campaign(name, due_date) with created_at from default_factory.
insert_row(tbl, name, due, now) ==
    tbl \cup {[campaign_id |-> next_rowid(tbl), name |-> name,
               due_date |-> bind_datetime(due),
               created_at |-> bind_datetime(utc_now(now))]}

\* session.get(Campaign, id): the set holding the row, empty when there is none.
session_get(tbl, id) == RowsOf(tbl, id)

\* select(Campaign).first(): the set holding the first row, empty when the
\* table has none.
select_first_none(tbl) == {}
select_first(tbl) == {r \in tbl : \A o \in tbl : r.campaign_id <= o.campaign_id}

\* select(Campaign).all(): the rows in rowid order.
RECURSIVE select_all(_)
select_all(tbl) ==
    IF tbl = {} THEN << >>
    ELSE LET m == SetMax(Ids(tbl))
             last == CHOOSE r \in tbl : r.campaign_id = m
         IN Append(select_all(tbl \ {last}), Campaign(last))

\* The flush of an update: UPDATE campaign SET <the columns whose value differs
\* from the loaded one> WHERE campaign_id = id. `loaded` is the row as the
\* session read it.
update_cols(loaded, c) ==
    [name |-> loaded.name # c.name,
     due_date |-> result_datetime(loaded.due_date) # c.due_date]
update_rows(tbl, loaded, c) ==
    LET ch == update_cols(loaded, c)
    IN {IF r.campaign_id = loaded.campaign_id
        THEN [r EXCEPT !.name = IF ch.name THEN c.name ELSE @,
                       !.due_date = IF ch.due_date
                                    THEN bind_datetime(c.due_date) ELSE @]
        ELSE r : r \in tbl}

\* DELETE FROM campaign WHERE campaign_id = id.
delete_rows_none(tbl, id) == tbl
delete_rows(tbl, id) == tbl \ RowsOf(tbl, id)

\* ---------------------------------------------------------------- replies
Reply(status, data) == [status |-> status, data |-> data]
Request(op, id) == [op |-> op, id |-> id]

\* ---------------------------------------------------------------- Init
Init ==
    /\ lifecycle = "uninitialized"
    /\ table = {}
    /\ seeded = FALSE
    /\ everIssued = {}
    /\ deleted = {}
    /\ written = {}
    /\ req = Request("none", NoId)
    /\ resp = Reply(0, << >>)
    /\ rq = << >>
    /\ sessions = {}
    /\ nextSid = 1

\* ---------------------------------------------------------------- startup
seed_rows_one(tbl, now) ==
    insert_row(tbl, "Summer Launch", local_now(now), now)
seed_rows(tbl, now) ==
    insert_row(insert_row(tbl, "Summer Launch", local_now(now), now),
               "Black Friday", local_now(now), now)

\* lifespan: create the table if missing, seed it when it holds no row.
lifespan ==
    /\ lifecycle = "uninitialized"
    /\ \E now \in Times :
          IF select_first(table) = {}
          THEN /\ table' = seed_rows(table, now)
               /\ seeded' = TRUE
               /\ everIssued' = everIssued \cup Ids(seed_rows(table, now))
               /\ deleted' = deleted \ Ids(seed_rows(table, now))
               /\ written' = written \cup
                     {[Campaign(r) EXCEPT !.due_date = local_now(now)] :
                        r \in seed_rows(table, now) \ table}
          ELSE UNCHANGED <<table, seeded, everIssued, deleted, written>>
    /\ lifecycle' = "ready"
    /\ req' = Request("startup", NoId)
    /\ resp' = Reply(0, << >>)
    /\ UNCHANGED concVars

\* The process ends (nothing runs after the lifespan's yield); the database
\* file stays.
process_exit ==
    /\ lifecycle = "ready"
    /\ lifecycle' = "uninitialized"
    /\ req' = Request("exit", NoId)
    /\ resp' = Reply(0, << >>)
    /\ UNCHANGED <<table, seeded, everIssued, deleted, written>>
    /\ UNCHANGED concVars

\* ---------------------------------------------------------------- handlers
read_campaigns ==
    /\ lifecycle = "ready"
    /\ req' = Request("list", NoId)
    /\ resp' = Reply(200, select_all(table))
    /\ UNCHANGED <<lifecycle, table, seeded, everIssued, deleted, written>>
    /\ UNCHANGED concVars

read_campaign(id) ==
    /\ lifecycle = "ready"
    /\ req' = Request("get", id)
    /\ LET data == session_get(table, id)
       IN IF data = {}
          THEN resp' = Reply(404, << >>)
          ELSE resp' = Reply(200, <<Campaign(CHOOSE r \in data : TRUE)>>)
    /\ UNCHANGED <<lifecycle, table, seeded, everIssued, deleted, written>>
    /\ UNCHANGED concVars

create_campaign(c, now) ==
    /\ lifecycle = "ready"
    /\ next_rowid(table) <= MaxId
    /\ req' = Request("create", NoId)
    /\ LET id == next_rowid(table)
           tbl == insert_row(table, c.name, c.due_date, now)
       IN /\ table' = tbl
          /\ resp' = Reply(201, select_all(RowsOf(tbl, id)))
          /\ everIssued' = everIssued \cup {id}
          /\ deleted' = deleted \ {id}
          /\ written' = {w \in written : w.campaign_id # id} \cup
                {[Campaign(r) EXCEPT !.due_date = c.due_date] : r \in RowsOf(tbl, id)}
    /\ UNCHANGED <<lifecycle, seeded>>
    /\ UNCHANGED concVars

update_campaign_nocheck(id, c) ==
    /\ lifecycle = "ready"
    /\ req' = Request("update", id)
    /\ LET data == session_get(table, id)
       IN IF data = {}
          THEN /\ resp' = Reply(500, << >>)
               /\ UNCHANGED <<table, written>>
          ELSE LET tbl == update_rows(table, CHOOSE r \in data : TRUE, c)
               IN /\ table' = tbl
                  /\ resp' = Reply(200, select_all(RowsOf(tbl, id)))
                  /\ written' = {IF w.campaign_id = id
                                   THEN [w EXCEPT !.name = c.name,
                                                  !.due_date = c.due_date]
                                   ELSE w : w \in written}
    /\ UNCHANGED <<lifecycle, seeded, everIssued, deleted>>
    /\ UNCHANGED concVars
update_campaign(id, c) ==
    /\ lifecycle = "ready"
    /\ req' = Request("update", id)
    /\ LET data == session_get(table, id)
       IN IF data = {}
          THEN /\ resp' = Reply(404, << >>)
               /\ UNCHANGED <<table, written>>
          ELSE LET tbl == update_rows(table, CHOOSE r \in data : TRUE, c)
               IN /\ table' = tbl
                  /\ resp' = Reply(200, select_all(RowsOf(tbl, id)))
                  /\ written' = {IF w.campaign_id = id
                                   THEN [w EXCEPT !.name = c.name,
                                                  !.due_date = c.due_date]
                                   ELSE w : w \in written}
    /\ UNCHANGED <<lifecycle, seeded, everIssued, deleted>>
    /\ UNCHANGED concVars

delete_campaign(id) ==
    /\ lifecycle = "ready"
    /\ req' = Request("delete", id)
    /\ LET data == session_get(table, id)
       IN IF data = {}
          THEN /\ resp' = Reply(404, << >>)
               /\ UNCHANGED <<table, deleted, written>>
          ELSE /\ table' = delete_rows(table, id)
               /\ resp' = Reply(204, << >>)
               /\ deleted' = deleted \cup {id}
               /\ written' = {w \in written : w.campaign_id # id}
    /\ UNCHANGED <<lifecycle, seeded, everIssued>>
    /\ UNCHANGED concVars

Next ==
    \/ lifespan
    \/ process_exit
    \/ read_campaigns
    \/ \E id \in IdInputs : read_campaign(id)
    \/ \E c \in CampaignCreate, now \in Times : create_campaign(c, now)
    \/ \E id \in IdInputs, c \in CampaignCreate : update_campaign(id, c)
    \/ \E id \in IdInputs : delete_campaign(id)

Spec == Init /\ [][Next]_vars

\* ================================================================ workers
\* The handlers step by step, for requests served at the same time by several
\* workers over the one database file. A request is, in turn: the session
\* opened by get_session, the statements of its handler (each SELECT and each
\* commit is one step on the shared table), and the session closed when
\* get_session's `with` block is left.
Slots == 1..NumReq
ConcIds == {1, MaxId}
ConcBodies == {[name |-> "A", due_date |-> None],
               [name |-> "B", due_date |-> [wall |-> 1, tz |-> "naive"]]}
NoBody == [name |-> "", due_date |-> None]
Idle == [pc |-> "idle", op |-> "none", id |-> NoId, body |-> NoBody,
         sid |-> 0, loaded |-> {}, status |-> 0]

InFlight(s) == rq[s].pc \notin {"idle", "done"}

InitConc ==
    /\ lifecycle = "ready"
    /\ table = seed_rows({}, 1)
    /\ seeded = TRUE
    /\ everIssued = {1, 2}
    /\ deleted = {}
    /\ written = {[Campaign(r) EXCEPT !.due_date = local_now(1)] : r \in seed_rows({}, 1)}
    /\ req = Request("startup", NoId)
    /\ resp = Reply(0, << >>)
    /\ rq = [s \in Slots |-> Idle]
    /\ sessions = {}
    /\ nextSid = 1

atomicVars == <<lifecycle, seeded, everIssued, deleted, written, req, resp>>

\* get_session up to its yield: a new Session for this request.
get_session(s, op, id, c) ==
    /\ rq[s].pc = "idle"
    /\ rq' = [rq EXCEPT ![s] = [Idle EXCEPT !.pc = "handler", !.op = op, !.id = id,
                                            !.body = c, !.sid = nextSid]]
    /\ sessions' = sessions \cup {nextSid}
    /\ nextSid' = nextSid + 1
    /\ UNCHANGED table
    /\ UNCHANGED atomicVars

\* get_session after its yield: the `with` block is left, by the handler's
\* return or by the exception it raised, and the session is closed.
get_session_exit_onreturn(s) ==
    /\ rq[s].pc = "exit"
    /\ rq' = [rq EXCEPT ![s].pc = "done"]
    /\ sessions' = IF rq[s].status < 400 THEN sessions \ {rq[s].sid} ELSE sessions
    /\ UNCHANGED <<table, nextSid>>
    /\ UNCHANGED atomicVars
get_session_exit(s) ==
    /\ rq[s].pc = "exit"
    /\ rq' = [rq EXCEPT ![s].pc = "done"]
    /\ sessions' = sessions \ {rq[s].sid}
    /\ UNCHANGED <<table, nextSid>>
    /\ UNCHANGED atomicVars

Step(s, op, pc) == rq[s].op = op /\ rq[s].pc = pc
Goto(s, pc, status) == rq' = [rq EXCEPT ![s].pc = pc, ![s].status = status]
ConcFrame == UNCHANGED <<sessions, nextSid>> /\ UNCHANGED atomicVars

read_campaigns_step(s) ==
    /\ Step(s, "list", "handler")
    /\ Goto(s, "exit", 200)
    /\ UNCHANGED table
    /\ ConcFrame

read_campaign_step(s) ==
    /\ Step(s, "get", "handler")
    /\ Goto(s, "exit", IF session_get(table, rq[s].id) = {} THEN 404 ELSE 200)
    /\ UNCHANGED table
    /\ ConcFrame

\* session.add, session.commit: the INSERT and its commit.
create_campaign_commit(s) ==
    /\ Step(s, "create", "handler")
    /\ next_rowid(table) <= MaxId
    /\ \E now \in Times :
          table' = insert_row(table, rq[s].body.name, rq[s].body.due_date, now)
    /\ rq' = [rq EXCEPT ![s].pc = "refresh", ![s].id = next_rowid(table)]
    /\ ConcFrame

\* session.refresh: the row is read again; it raises when the row is gone.
refresh_step(s) ==
    /\ rq[s].op \in {"create", "update"}
    /\ rq[s].pc = "refresh"
    /\ Goto(s, "exit", IF session_get(table, rq[s].id) = {} THEN 500
                       ELSE IF rq[s].op = "create" THEN 201 ELSE 200)
    /\ UNCHANGED table
    /\ ConcFrame

\* session.get and the 404 of update and delete.
get_or_404(s) ==
    /\ rq[s].op \in {"update", "delete"}
    /\ rq[s].pc = "handler"
    /\ LET data == session_get(table, rq[s].id)
       IN IF data = {}
          THEN Goto(s, "exit", 404)
          ELSE rq' = [rq EXCEPT ![s].pc = "commit", ![s].loaded = data]
    /\ UNCHANGED table
    /\ ConcFrame

\* The commit of update_campaign: the UPDATE of the changed columns; it raises
\* StaleDataError when the UPDATE matches no row. No column changed: no UPDATE.
update_campaign_commit(s) ==
    /\ Step(s, "update", "commit")
    /\ LET loaded == CHOOSE r \in rq[s].loaded : TRUE
           ch == update_cols(loaded, rq[s].body)
       IN IF (ch.name \/ ch.due_date) /\ RowsOf(table, rq[s].id) = {}
          THEN Goto(s, "exit", 500) /\ UNCHANGED table
          ELSE /\ table' = update_rows(table, loaded, rq[s].body)
               /\ rq' = [rq EXCEPT ![s].pc = "refresh"]
    /\ ConcFrame

\* The commit of delete_campaign: the DELETE; a DELETE that matches no row is
\* a warning of the ORM, not an error.
delete_campaign_commit(s) ==
    /\ Step(s, "delete", "commit")
    /\ table' = delete_rows(table, rq[s].id)
    /\ Goto(s, "exit", 204)
    /\ ConcFrame

NextConc ==
    \/ \E s \in Slots, id \in ConcIds, c \in ConcBodies,
          op \in {"list", "get", "create", "update", "delete"} :
          get_session(s, op, IF op \in {"list", "create"} THEN NoId ELSE id,
                             IF op \in {"create", "update"} THEN c ELSE NoBody)
    \/ \E s \in Slots : read_campaigns_step(s)
    \/ \E s \in Slots : read_campaign_step(s)
    \/ \E s \in Slots : create_campaign_commit(s)
    \/ \E s \in Slots : refresh_step(s)
    \/ \E s \in Slots : get_or_404(s)
    \/ \E s \in Slots : update_campaign_commit(s)
    \/ \E s \in Slots : delete_campaign_commit(s)
    \/ \E s \in Slots : get_session_exit(s)

SpecConc == InitConc /\ [][NextConc]_vars

\* ================================================================ claims
\* Every action sets req to the operation it ran, so in a step that changes
\* the state req' names the operation of the step and resp' is its reply.
SeedNames == <<"Summer Launch", "Black Friday">>
NamesOf(data) == [i \in 1..Len(data) |-> data[i].name]
UniqueIds(tbl) == \A r1, r2 \in tbl : r1.campaign_id = r2.campaign_id => r1 = r2
WrittenOf(wr, id) == {w \in wr : w.campaign_id = id}

\* C1: a create never assigns an id that an earlier insert was given (also
\* when the row that had it, the highest one included, was deleted since), and
\* an update leaves the ids of the table as they are.
C1_IdNeverReused ==
    [][/\ (req'.op = "create" => resp'.data[1].campaign_id \notin everIssued)
       /\ (req'.op = "update" => Ids(table') = Ids(table))]_vars

\* C2: a create replies 201 with one row whose id is greater than zero; a
\* create that directly follows a create returns a different id; no two rows
\* of the table share an id.
C2_CreateIdsFresh ==
    [][/\ (req'.op = "create" =>
             /\ resp'.status = 201
             /\ Len(resp'.data) = 1
             /\ resp'.data[1].campaign_id > 0
             /\ resp'.data[1].campaign_id \notin Ids(table)
             /\ (req.op = "create" =>
                   resp'.data[1].campaign_id # resp.data[1].campaign_id))
       /\ UniqueIds(table')]_vars
C2_Witness ==
    /\ req.op = "create"
    /\ resp.status = 201
    /\ resp.data[1].campaign_id = 2
    /\ Ids(table) = {1, 2}
    /\ \A r \in table : r.name \in {c.name : c \in CampaignCreate}

\* C3 as stated: once the seed rows have been inserted, no later startup
\* inserts them again.
C3_NeverReseeds ==
    [][(seeded /\ req'.op = "startup") => table' = table]_vars
\* C3 amended: rows are seeded only by the startup step of a process that
\* finds the table empty; while the process runs, an emptied table stays
\* empty until a create, and the lifecycle goes back to uninitialized only
\* when the process ends. (No request body tried carries a seed name, so a
\* new row with a seed name is a seed row.)
C3_SeedOnlyAtStartupOfEmptyTable ==
    [][/\ (\E r \in table' \ table : r.name \in {SeedNames[1], SeedNames[2]}) =>
             (req'.op = "startup" /\ lifecycle = "uninitialized" /\ table = {})
       /\ (lifecycle = "ready" /\ table = {} /\ table' # {}) => req'.op = "create"
       /\ (lifecycle = "ready" /\ lifecycle' # "ready") => req'.op = "exit"]_vars
C3_Witness ==
    /\ seeded
    /\ lifecycle = "ready"
    /\ table = {}
    /\ req.op = "list"
    /\ resp.data = << >>

C5_UpdateReplacesBothFields ==
    [][(req'.op = "update" /\ resp'.status = 200) =>
          /\ \A w \in WrittenOf(written', req'.id) :
                /\ resp'.data[1].name = w.name
                /\ resp'.data[1].due_date = w.due_date
          /\ \A r \in RowsOf(table, req'.id) :
                /\ resp'.data[1].campaign_id = r.campaign_id
                /\ resp'.data[1].created_at = result_datetime(r.created_at)
          /\ resp'.data = select_all(RowsOf(table', req'.id))
          /\ {r \in table' : r.campaign_id # req'.id} =
             {r \in table : r.campaign_id # req'.id}]_vars

\* C6: a get of an id replies with the name and due_date of the last create
\* or update of that id, and with the id and created_at its create returned.
C6_GetReturnsLastWrite ==
    [][(req'.op = "get" /\ resp'.status = 200) =>
          /\ WrittenOf(written, req'.id) # {}
          /\ \A w \in WrittenOf(written, req'.id) : resp'.data[1] = w]_vars

\* C7: a get, update or delete of an id that has no row replies 404 with no
\* body and leaves the table as it was; a request adds, changes or removes
\* at most one row.
C7_NotFoundLeavesTable ==
    [][/\ (req'.op \in {"get", "update", "delete"}
              /\ session_get(table, req'.id) = {}) =>
             (resp'.status = 404 /\ resp'.data = << >> /\ table' = table)
       /\ (req'.op \in {"list", "get", "create", "update", "delete"}) =>
             (Cardinality(table \ table') <= 1 /\ Cardinality(table' \ table) <= 1)]_vars
C7_Witness ==
    /\ req.op = "update"
    /\ resp.status = 404
    /\ req.id \in 1..MaxId
    /\ table # {}

\* The store holds what the first startup put there: the only inserts were the
\* two of the seeding, nothing was deleted and no row was renamed.
FreshStore ==
    /\ everIssued = {1, 2}
    /\ deleted = {}
    /\ \A w \in written : w.name \in {SeedNames[1], SeedNames[2]}

\* C8: a startup that finds the table empty inserts the two seed rows, in one
\* step, and a list straight after it returns exactly these two; a startup
\* that finds a row adds nothing.
C8_SeedsTwoRowsIffEmpty ==
    [][/\ (req'.op = "startup" =>
             IF table = {}
             THEN NamesOf(select_all(table')) = SeedNames
             ELSE table' = table)
       /\ (req.op = "startup" /\ FreshStore /\ req'.op = "list") =>
             (resp'.status = 200 /\ NamesOf(resp'.data) = SeedNames
              /\ \A i \in 1..2 : resp'.data[i].campaign_id = i)]_vars
C8_Witness ==
    /\ req.op = "startup"
    /\ Cardinality(table) = 1

\* C9: every open session belongs to exactly one request in flight and every
\* request in flight has its own open session, whatever way the requests
\* before it ended (return, 404, store error); so with no request in flight
\* no session is open.
C9_SessionPerRequestReleased ==
    /\ sessions = {rq[s].sid : s \in {t \in Slots : InFlight(t)}}
    /\ \A s, t \in Slots :
          (InFlight(s) /\ InFlight(t) /\ s # t) => rq[s].sid # rq[t].sid
    /\ (\A s \in Slots : ~InFlight(s)) => sessions = {}
C9_Witness ==
    /\ sessions = {}
    /\ \E s, t \in Slots :
          /\ rq[s].pc = "done" /\ rq[s].status = 500
          /\ rq[t].pc = "done" /\ rq[t].status = 204

\* The handler of an update or delete request run on its own from table tbl.
serve(tbl, r) ==
    LET data == session_get(tbl, r.id)
    IN IF data = {} THEN [table |-> tbl, status |-> 404]
       ELSE IF r.op = "update"
       THEN [table |-> update_rows(tbl, CHOOSE x \in data : TRUE, r.body), status |-> 200]
       ELSE [table |-> delete_rows(tbl, r.id), status |-> 204]

\* The requests of ord served one after the other from tbl: the final table
\* when every status is the one the request got, the empty sequence otherwise.
RECURSIVE serial(_, _)
serial(tbl, ord) ==
    IF ord = << >> THEN <<tbl>>
    ELSE LET out == serve(tbl, rq[Head(ord)])
         IN IF out.status = rq[Head(ord)].status
            THEN serial(out.table, Tail(ord)) ELSE << >>

Orders(D) ==
    {o \in [1..Cardinality(D) -> D] : \A i, j \in 1..Cardinality(D) : o[i] = o[j] => i = j}

\* C10: when the requests served together were updates and deletes, each
\* ended 200, 204 or 404, two deletes of one id did not both end 204, and the
\* statuses and the final table are those of the requests served one after
\* the other in some order.
C10_InterleavedRequestsSerialise ==
    LET D == {s \in Slots : rq[s].pc = "done"}
    IN ((\A s \in Slots : ~InFlight(s)) /\ D # {}
          /\ \A s \in D : rq[s].op \in {"update", "delete"}) =>
       /\ \A s \in D : rq[s].status \in {200, 204, 404}
       /\ \A s, t \in D :
             (s # t /\ rq[s].op = "delete" /\ rq[t].op = "delete"
                /\ rq[s].id = rq[t].id) => ~(rq[s].status = 204 /\ rq[t].status = 204)
       /\ \E o \in Orders(D) : serial(seed_rows({}, 1), o) = <<table>>

====
